---------------------------- MODULE Spec2Model ----------------------------
(***************************************************************************)
(* Model of vnpy/event/engine.py: the EventEngine with its queue, its      *)
(* subscription table, the dispatch thread (_run/_process), the timer      *)
(* thread (_run_timer) and the callers of start, stop, put, register,      *)
(* unregister, register_general and unregister_general.                    *)
(*                                                                         *)
(* Threads interleave between statements.  The dispatch thread and the     *)
(* timer thread are modelled statement by statement; start() and stop()    *)
(* are modelled statement by statement too (stop blocks in join).  A call  *)
(* of put/register/unregister is one step of its caller; a handler running *)
(* inside the dispatch thread that calls one of them is the same step      *)
(* taken while the dispatch thread is at "call"/"gcall".  start() and       *)
(* stop() are called from one controlling thread, one call after another.  *)
(* stop, put, register, unregister, register_general and                   *)
(* unregister_general are read as methods of EventEngine.                  *)
(*                                                                         *)
(* Spec is the engine as described above; FairSpec adds the scheduling     *)
(* under which liveness is checked; LateSpec records what the loops do     *)
(* after stop() has cleared the flag; RaiseSpec adds handlers that raise;   *)
(* RaceSpec takes the table calls of two threads statement by statement.   *)
(***************************************************************************)
EXTENDS Integers, Sequences, FiniteSets, TLC

\* ------------------------------------------------------------------ bounds
\* producer put calls in one behaviour
MaxPut == 2
\* timer events enqueued while the engine is active
MaxTicks == 2
\* register/unregister calls that change the table (and the first register
\* call that finds its handler present)
MaxOps == 3
\* start()/stop() calls
MaxCalls == 3
\* calls of the engine's callers (start, stop, put, and the register/unregister
\* calls that change the table) plus timer events, all together
MaxEnv == 5
\* the same, in the behaviours checked for liveness
MaxFairEnv == 4

\* ------------------------------------------------------------- constants
EVENT_TIMER == "eTimer"
\* Event.__init__'s default payload
None == "None"
\* event types producers put and subscribers register for
UserTypes == {"A", "B"}
Types == UserTypes \cup {EVENT_TIMER}
\* payloads producers put
Payloads == {"d1"}
Handlers == {"h1", "h2"}
NoEvent == [type |-> "-", data |-> None, id |-> 0]
NoHandler == "-"
\* the name of the general list in regOrder
General == "*"
\* the history of the stop window: not recorded (on is false), nothing
\* enqueued or dequeued since the flag was last written
NoLate == [on |-> FALSE, ticks |-> 0, gets |-> 0]
\* the threads that call register/unregister concurrently
Callers == {"c1", "c2"}
\* what a handler may raise: queue.Empty (or a subclass), or anything else
Exceptions == {"Empty", "Error"}
\* a caller thread outside any call: the outcome of the call it made last
\* (err), its local handler_list (att: it is the mapping's list of type t;
\* own: its content when it is no longer in the mapping), and whether an
\* unregister call of the same handler has overlapped its call (ovl)
IdleCaller == [pc |-> "idle", op |-> "none", t |-> "-", h |-> NoHandler,
               att |-> TRUE, own |-> <<>>, err |-> "none", ovl |-> FALSE]

VARIABLES
    active,     \* self._active
    queue,      \* self._queue: sequence of events, head first
    handlers,   \* self._handlers: function, DOMAIN = the keys present
    general,    \* self._general_handlers
    thread,     \* self._thread: "new", "alive", "dead"
    timer,      \* self._timer:  "new", "alive", "dead"
    pc,         \* position of the dispatch thread in _run/_process
    tpc,        \* position of the timer thread in _run_timer
    cur,        \* _run's local `event`
    idx,        \* index of the list iterator of the running comprehension
    detached,   \* the iterated per-type list is no longer the mapping's
    curH,       \* the handler being invoked
    ctl,        \* position of the caller of start()/stop()
    calls,      \* history of start()/stop() calls with their outcome
    nput,       \* events put so far (the id of the last one)
    nuser,      \* put calls of producers so far
    nticks,     \* timer events enqueued so far
    nops,       \* table calls counted against MaxOps so far
    ngot,       \* events dequeued so far
    npre,       \* events put before the dispatch thread was started
    log,        \* handler invocations of the current event: [pass, h]
    regOrder,   \* per list, its registered handlers in order of registration
    touchedT,   \* handlers (un)registered for cur.type since cur was dequeued
    touchedG,   \* handlers (un)registered as general since cur was dequeued
    dup,        \* a register call has found its handler already present
    late,       \* timer events enqueued and events dequeued while the flag is
                \* false, since the flag was last written (recorded in LateSpec)
    callers,    \* per caller thread, its position in a table call (RaceSpec)
    completed   \* <<list, handler>> whose register call completed with no
                \* unregister call of it begun since (RaceSpec)

vars == <<active, queue, handlers, general, thread, timer, pc, tpc, cur, idx,
          detached, curH, ctl, calls, nput, nuser, nticks, nops, ngot, npre,
          log, regOrder, touchedT, touchedG, dup, late, callers, completed>>

tableVars == <<handlers, general>>
dispVars == <<pc, cur, idx, detached, curH, ngot, log>>
ghostT == <<touchedT, touchedG, dup, regOrder>>
lifeVars == <<active, thread, timer, ctl, calls>>
countVars == <<nput, nuser, nticks, npre>>
raceVars == <<callers, completed>>

\* the callers and the timer may still act within the bounds
Budget == nops + nuser + nticks + Len(calls) < MaxEnv

\* ---------------------------------------------------------------- helpers
Range(s) == {s[i] : i \in 1..Len(s)}

\* list.remove(x): removes the first occurrence
ListRemove(s, x) ==
    LET i == CHOOSE k \in 1..Len(s) : s[k] = x /\ \A j \in 1..(k-1) : s[j] # x
    IN  SubSeq(s, 1, i-1) \o SubSeq(s, i+1, Len(s))

\* mutant of ListAppend: list.insert(0, x)
ListAppend_Front(s, x) == <<x>> \o s

\* list.append(x)
ListAppend(s, x) == Append(s, x)

\* Event(type, data)
Event(t, d, n) == [type |-> t, data |-> d, id |-> n]

\* defaultdict.__getitem__: the mapping after self._handlers[type]
\* (a missing key is created with an empty list)
Subscript(hs, t) == IF t \in DOMAIN hs THEN hs ELSE hs @@ (t :> <<>>)

\* dict.pop(type)
Pop(hs, t) == [k \in (DOMAIN hs) \ {t} |-> hs[k]]

\* mutant of RegisterOp: register without the `handler not in` test
RegisterOp_NoCheck(hs, t, h) ==
    [Subscript(hs, t) EXCEPT ![t] = ListAppend(@, h)]

\* The mapping after register(type, handler)
RegisterOp(hs, t, h) ==
    LET hs1 == Subscript(hs, t)
    IN  IF h \notin Range(hs1[t])
        THEN [hs1 EXCEPT ![t] = ListAppend(@, h)]
        ELSE hs1

\* The mapping after unregister(type, handler)
UnregisterOp(hs, t, h) ==
    LET hs1 == Subscript(hs, t)
        hs2 == IF h \in Range(hs1[t])
               THEN [hs1 EXCEPT ![t] = ListRemove(@, h)]
               ELSE hs1
    IN  IF hs2[t] = <<>> THEN Pop(hs2, t) ELSE hs2

\* The general list after register_general(handler)
RegisterGeneralOp(gs, h) == IF h \notin Range(gs) THEN ListAppend(gs, h) ELSE gs

\* The general list after unregister_general(handler)
UnregisterGeneralOp(gs, h) == IF h \in Range(gs) THEN ListRemove(gs, h) ELSE gs

\* mutant of QueuePut: a LifoQueue's put
QueuePut_Front(q, e) == <<e>> \o q

\* mutant of QueueRest: get returns the head and leaves it in the queue
QueueRest_Keep(q) == q

\* Queue.put / Queue.get
QueuePut(q, e) == Append(q, e)
QueueHead(q) == Head(q)
QueueRest(q) == Tail(q)

\* ------------------------------------------------------------------- Init
\* the engine after EventEngine() (lines 54-66), with no history yet
InitEngine ==
    /\ active = FALSE
    /\ queue = <<>>
    /\ handlers = <<>>
    /\ general = <<>>
    /\ thread = "new"
    /\ timer = "new"
    /\ pc = "while"
    /\ tpc = "while"
    /\ cur = NoEvent
    /\ idx = 0
    /\ detached = FALSE
    /\ curH = NoHandler
    /\ ctl = "idle"
    /\ calls = <<>>
    /\ nput = 0
    /\ nuser = 0
    /\ nticks = 0
    /\ nops = 0
    /\ ngot = 0
    /\ npre = 0
    /\ log = <<>>
    /\ regOrder = [l \in UserTypes \cup {General} |-> <<>>]
    /\ touchedT = {}
    /\ touchedG = {}
    /\ dup = FALSE
    /\ completed = {}

\* no thread is inside a table call: register and unregister calls are single
\* steps
Init == InitEngine /\ late = NoLate /\ callers = <<>>

\* the same, with the history of the stop window recorded
LateInit ==
    InitEngine /\ late = [NoLate EXCEPT !.on = TRUE] /\ callers = <<>>

\* the same, with the threads that make table calls statement by statement
RaceInit ==
    InitEngine /\ late = NoLate /\ callers = [c \in Callers |-> IdleCaller]

\* ------------------------------------------------- start() and stop() calls
NoCall == [op |-> "none", res |-> "none"]
LastCall == IF calls = <<>> THEN NoCall ELSE calls[Len(calls)]
Returned(res) == [calls EXCEPT ![Len(calls)].res = res]

\* start(), line 130: self._active = True
StartCall ==
    /\ ctl = "idle"
    /\ Len(calls) < MaxCalls
    /\ Budget
    /\ active' = TRUE
    /\ ctl' = "start_thread"
    /\ calls' = Append(calls, [op |-> "start", res |-> "pending"])
    /\ late' = [late EXCEPT !.ticks = 0, !.gets = 0]
    /\ UNCHANGED <<raceVars, queue, tableVars, thread, timer, tpc, dispVars, ghostT,
                   countVars, nops>>

\* start(), line 131: self._thread.start(); Thread.start raises RuntimeError
\* when the thread has been started before
StartThread ==
    /\ ctl = "start_thread"
    /\ IF thread = "new"
       THEN /\ thread' = "alive"
            /\ ctl' = "start_timer"
            /\ calls' = calls
       ELSE /\ thread' = thread
            /\ ctl' = "idle"
            /\ calls' = Returned("RuntimeError")
    /\ UNCHANGED <<raceVars, late, active, queue, tableVars, timer, tpc, dispVars, ghostT,
                   countVars, nops>>

\* start(), line 132: self._timer.start()
StartTimer ==
    /\ ctl = "start_timer"
    /\ IF timer = "new"
       THEN /\ timer' = "alive"
            /\ calls' = Returned("ok")
       ELSE /\ timer' = timer
            /\ calls' = Returned("RuntimeError")
    /\ ctl' = "idle"
    /\ UNCHANGED <<raceVars, late, active, queue, tableVars, thread, tpc, dispVars, ghostT,
                   countVars, nops>>

\* stop(), line 140: self._active = False
StopCall ==
    /\ ctl = "idle"
    /\ Len(calls) < MaxCalls
    /\ Budget
    /\ active' = FALSE
    /\ ctl' = "join_timer"
    /\ calls' = Append(calls, [op |-> "stop", res |-> "pending"])
    /\ late' = [late EXCEPT !.ticks = 0, !.gets = 0]
    /\ UNCHANGED <<raceVars, queue, tableVars, thread, timer, tpc, dispVars, ghostT,
                   countVars, nops>>

\* stop(), line 142: self._timer.join(); Thread.join raises RuntimeError on a
\* thread that was never started and blocks while the thread is alive
JoinTimer ==
    /\ ctl = "join_timer"
    /\ timer # "alive"
    /\ IF timer = "new"
       THEN /\ ctl' = "idle"
            /\ calls' = Returned("RuntimeError")
       ELSE /\ ctl' = "join_thread"
            /\ calls' = calls
    /\ UNCHANGED <<raceVars, late, active, queue, tableVars, thread, timer, tpc, dispVars,
                   ghostT, countVars, nops>>

\* mutant of JoinThread: stop() does not wait for the dispatch thread
JoinThread_NoWait ==
    /\ ctl = "join_thread"
    /\ ctl' = "idle"
    /\ calls' = Returned(IF thread = "new" THEN "RuntimeError" ELSE "ok")
    /\ UNCHANGED <<raceVars, late, active, queue, tableVars, thread, timer, tpc, dispVars,
                   ghostT, countVars, nops>>

\* stop(), line 144: self._thread.join()
JoinThread ==
    /\ ctl = "join_thread"
    /\ thread # "alive"
    /\ ctl' = "idle"
    /\ calls' = Returned(IF thread = "new" THEN "RuntimeError" ELSE "ok")
    /\ UNCHANGED <<raceVars, late, active, queue, tableVars, thread, timer, tpc, dispVars,
                   ghostT, countVars, nops>>

\* ------------------------------------------------------------------- put
\* put(event), line 152, called by a producer
Put(t, d) ==
    /\ nuser < MaxPut
    /\ Budget
    /\ queue' = QueuePut(queue, Event(t, d, nput + 1))
    /\ nput' = nput + 1
    /\ nuser' = nuser + 1
    /\ npre' = IF thread = "new" THEN npre + 1 ELSE npre
    /\ UNCHANGED <<raceVars, late, tableVars, lifeVars, tpc, dispVars, ghostT, nticks, nops>>

\* ----------------------------------------------------------- timer thread
\* mutant of TimerWhile: the loop sleeps again without testing the flag
TimerWhile_NoTest ==
    /\ timer = "alive"
    /\ tpc = "while"
    /\ tpc' = "sleep"
    /\ UNCHANGED <<raceVars, late, active, queue, tableVars, thread, timer, ctl,
                   calls, dispVars, ghostT, countVars, nops>>

\* _run_timer, line 113: while self._active
TimerWhile ==
    /\ timer = "alive"
    /\ tpc = "while"
    /\ IF active
       THEN /\ tpc' = "sleep"
            /\ timer' = timer
       ELSE /\ tpc' = tpc
            /\ timer' = "dead"
    /\ UNCHANGED <<raceVars, late, active, queue, tableVars, thread, ctl, calls, dispVars,
                   ghostT, countVars, nops>>

\* mutant of TimerFire: the sleep ends and no event is put
TimerFire_Skip ==
    /\ timer = "alive"
    /\ tpc = "sleep"
    /\ tpc' = "while"
    /\ UNCHANGED <<raceVars, late, queue, tableVars, lifeVars, dispVars, ghostT,
                   countVars, nops>>

\* _run_timer, lines 115-119: the sleep ends, Event(EVENT_TIMER) is put
TimerFire ==
    /\ timer = "alive"
    /\ tpc = "sleep"
    /\ active => (nticks < MaxTicks /\ Budget)
    /\ queue' = QueuePut(queue, Event(EVENT_TIMER, None, nput + 1))
    /\ nput' = nput + 1
    /\ nticks' = nticks + 1
    /\ tpc' = "while"
    /\ late' = IF active \/ ~late.on THEN late
               ELSE [late EXCEPT !.ticks = @ + 1]
    /\ UNCHANGED <<raceVars, tableVars, lifeVars, dispVars, ghostT, nuser, npre, nops>>

\* -------------------------------------------------------- dispatch thread
\* mutant of RunWhile: the loop tries another dequeue without testing the flag
RunWhile_NoTest ==
    /\ thread = "alive"
    /\ pc = "while"
    /\ pc' = "get"
    /\ UNCHANGED <<raceVars, late, active, queue, tableVars, thread, timer, tpc,
                   ctl, calls, cur, idx, detached, curH, ngot, log, ghostT,
                   countVars, nops>>

\* _run, line 76: while self._active
RunWhile ==
    /\ thread = "alive"
    /\ pc = "while"
    /\ IF active
       THEN /\ pc' = "get"
            /\ thread' = thread
       ELSE /\ pc' = pc
            /\ thread' = "dead"
    /\ UNCHANGED <<raceVars, late, active, queue, tableVars, timer, tpc, ctl, calls, cur, idx,
                   detached, curH, ngot, log, ghostT, countVars,
                   nops>>

\* _run, line 79: self._queue.get(block=True, timeout=1) returns an event
RunGet ==
    /\ thread = "alive"
    /\ pc = "get"
    /\ queue # <<>>
    /\ cur' = QueueHead(queue)
    /\ queue' = QueueRest(queue)
    /\ ngot' = ngot + 1
    /\ pc' = "check"
    /\ late' = IF active \/ ~late.on THEN late
               ELSE [late EXCEPT !.gets = @ + 1]
    /\ UNCHANGED <<raceVars, tableVars, lifeVars, tpc, idx, detached, curH, log,
                   ghostT, countVars, nops>>

\* mutant of RunTimeout: self._queue.get() without a timeout never gives up
RunTimeout_Blocks ==
    /\ FALSE
    /\ UNCHANGED vars

\* _run, lines 82-84: the get times out on an empty queue (Empty is caught)
RunTimeout ==
    /\ thread = "alive"
    /\ pc = "get"
    /\ queue = <<>>
    /\ pc' = "while"
    /\ UNCHANGED <<raceVars, late, queue, tableVars, lifeVars, tpc, cur, idx, detached, curH,
                   ngot, log, ghostT, countVars, nops>>

\* _process, line 96: if event.type in self._handlers
ProcessCheck ==
    /\ thread = "alive"
    /\ pc = "check"
    /\ pc' = IF cur.type \in DOMAIN handlers THEN "lookup" ELSE "gcheck"
    /\ UNCHANGED <<raceVars, late, queue, tableVars, lifeVars, tpc, cur, idx, detached, curH,
                   ngot, log, ghostT, countVars, nops>>

\* _process, line 98: self._handlers[event.type] is evaluated (the defaultdict
\* creates a missing key) and the comprehension takes an iterator of the list
ProcessLookup ==
    /\ thread = "alive"
    /\ pc = "lookup"
    /\ handlers' = Subscript(handlers, cur.type)
    /\ idx' = 0
    /\ detached' = FALSE
    /\ pc' = "iter"
    /\ UNCHANGED <<raceVars, late, queue, general, lifeVars, tpc, cur, curH, ngot, log,
                   ghostT, countVars, nops>>

\* The list object the type pass iterates: the mapping's list of cur.type, or
\* the list unregister popped from the mapping, which is empty
IterList == IF detached THEN <<>> ELSE handlers[cur.type]

\* The list iterator's next item: the element at the iterator's index
IterItem(l, i) == l[i + 1]

\* _process, line 98: the iterator yields the next handler, which is called,
\* or is exhausted
ProcessNext ==
    /\ thread = "alive"
    /\ pc = "iter"
    /\ IF idx < Len(IterList)
       THEN /\ curH' = IterItem(IterList, idx)
            /\ idx' = idx + 1
            /\ log' = Append(log, [pass |-> "T", h |-> curH'])
            /\ pc' = "call"
       ELSE /\ curH' = curH
            /\ idx' = 0
            /\ log' = log
            /\ pc' = "gcheck"
    /\ UNCHANGED <<raceVars, late, queue, tableVars, lifeVars, tpc, cur, detached, ngot,
                   ghostT, countVars, nops>>

\* mutant of HandlerReturn: the loop goes on to the next handler while the
\* invocation is still running (as if the handler were run on another thread)
HandlerReturn_Async ==
    /\ thread = "alive"
    /\ pc = "call"
    /\ pc' = "iter"
    /\ UNCHANGED <<raceVars, late, queue, tableVars, lifeVars, tpc, cur, idx,
                   detached, curH, ngot, log, ghostT, countVars, nops>>

\* _process, line 98: handler(event) returns
HandlerReturn ==
    /\ thread = "alive"
    /\ pc = "call"
    /\ curH' = NoHandler
    /\ pc' = "iter"
    /\ UNCHANGED <<raceVars, late, queue, tableVars, lifeVars, tpc, cur, idx, detached, ngot,
                   log, ghostT, countVars, nops>>

\* _process, line 101: if self._general_handlers
GeneralCheck ==
    /\ thread = "alive"
    /\ pc = "gcheck"
    /\ pc' = IF general # <<>> THEN "giter" ELSE "done"
    /\ idx' = 0
    /\ UNCHANGED <<raceVars, late, queue, tableVars, lifeVars, tpc, cur, detached, curH, ngot,
                   log, ghostT, countVars, nops>>

\* _process, line 103: the iterator of self._general_handlers yields the next
\* handler, which is called, or is exhausted
GeneralNext ==
    /\ thread = "alive"
    /\ pc = "giter"
    /\ IF idx < Len(general)
       THEN /\ curH' = IterItem(general, idx)
            /\ idx' = idx + 1
            /\ log' = Append(log, [pass |-> "G", h |-> curH'])
            /\ pc' = "gcall"
       ELSE /\ curH' = curH
            /\ idx' = 0
            /\ log' = log
            /\ pc' = "done"
    /\ UNCHANGED <<raceVars, late, queue, tableVars, lifeVars, tpc, cur, detached, ngot,
                   ghostT, countVars, nops>>

\* _process, line 103: handler(event) returns
GeneralReturn ==
    /\ thread = "alive"
    /\ pc = "gcall"
    /\ curH' = NoHandler
    /\ pc' = "giter"
    /\ UNCHANGED <<raceVars, late, queue, tableVars, lifeVars, tpc, cur, idx, detached, ngot,
                   log, ghostT, countVars, nops>>

\* _process returns to _run (line 81 is done, the loop goes to line 76)
ProcessReturn ==
    /\ thread = "alive"
    /\ pc = "done"
    /\ pc' = "while"
    /\ cur' = NoEvent
    /\ idx' = 0
    /\ detached' = FALSE
    /\ log' = <<>>
    /\ touchedT' = {}
    /\ touchedG' = {}
    /\ UNCHANGED <<raceVars, late, queue, tableVars, lifeVars, tpc, curH, ngot, countVars,
                   nops, dup, regOrder>>

\* ------------------------------------------------- the subscription table
\* an event is being dispatched (between the dequeue and _process's return)
Dispatching == cur # NoEvent

\* the type pass holds an iterator of the mapping's list of type t
Iterating(t) == pc \in {"iter", "call"} /\ cur.type = t /\ ~detached

Listed(hs, t) == IF t \in DOMAIN hs THEN Range(hs[t]) ELSE {}

\* History of the registrations of one list: the handlers now registered, the
\* earliest registered first (a handler registered again after an unregister
\* counts from its new registration)
Registered(o, h) == IF h \in Range(o) THEN o ELSE Append(o, h)
Unregistered(o, h) == SelectSeq(o, LAMBDA x : x # h)

\* what a call that changes the table costs, and its trace in the history
\* variables of the running dispatch
TableStep(t, h) ==
    /\ (handlers' # handlers \/ dup' # dup) => (nops < MaxOps /\ Budget)
    /\ nops' = IF handlers' # handlers \/ dup' # dup THEN nops + 1 ELSE nops
    /\ touchedT' = IF Dispatching /\ cur.type = t
                      /\ Listed(handlers', t) # Listed(handlers, t)
                   THEN touchedT \cup {h} ELSE touchedT
    /\ detached' = (detached \/ (Iterating(t) /\ t \notin DOMAIN handlers'))

\* register(type, handler), lines 161-163
Register(t, h) ==
    /\ handlers' = RegisterOp(handlers, t, h)
    /\ regOrder' = [regOrder EXCEPT ![t] = Registered(@, h)]
    /\ dup' = (dup \/ h \in Listed(handlers, t))
    /\ TableStep(t, h)
    /\ UNCHANGED <<raceVars, late, queue, general, lifeVars, pc, tpc, cur, idx, curH, ngot,
                   log, touchedG, countVars>>

\* unregister(type, handler), lines 172-178
Unregister(t, h) ==
    /\ handlers' = UnregisterOp(handlers, t, h)
    /\ regOrder' = [regOrder EXCEPT ![t] = Unregistered(@, h)]
    /\ dup' = dup
    /\ TableStep(t, h)
    /\ UNCHANGED <<raceVars, late, queue, general, lifeVars, pc, tpc, cur, idx, curH, ngot,
                   log, touchedG, countVars>>

GeneralStep(h) ==
    /\ (general' # general \/ dup' # dup) => (nops < MaxOps /\ Budget)
    /\ nops' = IF general' # general \/ dup' # dup THEN nops + 1 ELSE nops
    /\ touchedG' = IF Dispatching /\ general' # general
                   THEN touchedG \cup {h} ELSE touchedG

\* register_general(handler), lines 186-187
RegisterGeneral(h) ==
    /\ general' = RegisterGeneralOp(general, h)
    /\ regOrder' = [regOrder EXCEPT ![General] = Registered(@, h)]
    /\ dup' = (dup \/ h \in Range(general))
    /\ GeneralStep(h)
    /\ UNCHANGED <<raceVars, late, queue, handlers, lifeVars, tpc, dispVars, touchedT,
                   countVars>>

\* unregister_general(handler), lines 196-198
UnregisterGeneral(h) ==
    /\ general' = UnregisterGeneralOp(general, h)
    /\ regOrder' = [regOrder EXCEPT ![General] = Unregistered(@, h)]
    /\ dup' = dup
    /\ GeneralStep(h)
    /\ UNCHANGED <<raceVars, late, queue, handlers, lifeVars, tpc, dispVars, touchedT,
                   countVars>>

\* ------------------------------------------------- handlers that raise
\* _process, line 98 or 103: handler(event) raises x.  The exception leaves
\* the comprehension and _process; the try of _run (lines 77-84) encloses the
\* call of _process, so an Empty is caught at line 82 and the loop goes on
\* with line 76; any other exception ends _run and the dispatch thread.
HandlerRaise(x) ==
    /\ thread = "alive"
    /\ pc \in {"call", "gcall"}
    /\ IF x = "Empty"
       THEN /\ pc' = "while"
            /\ cur' = NoEvent
            /\ idx' = 0
            /\ detached' = FALSE
            /\ curH' = NoHandler
            /\ log' = <<>>
            /\ touchedT' = {}
            /\ touchedG' = {}
            /\ thread' = thread
       ELSE /\ thread' = "dead"
            /\ UNCHANGED <<pc, cur, idx, detached, curH, log, touchedT,
                           touchedG>>
    /\ UNCHANGED <<raceVars, late, active, queue, tableVars, timer, tpc, ctl,
                   calls, ngot, countVars, nops, dup, regOrder>>

\* ------------------------- table calls of concurrent threads, by statement
\* Two threads call register, unregister, register_general and
\* unregister_general; a thread may be preempted between two statements of a
\* call.  No lock is taken anywhere in the calls.

\* what the calls of the caller threads leave alone
raceFrame == <<active, queue, thread, timer, pc, tpc, cur, idx, detached, curH,
               ctl, calls, nput, nuser, nticks, ngot, npre, log, regOrder,
               touchedT, touchedG, dup, late>>

\* the list object the local handler_list of caller c refers to
HandlerList(c) ==
    IF callers[c].att THEN handlers[callers[c].t] ELSE callers[c].own

\* a caller enters a call: its frame after line 161 / 172 / 186 / 196
Frame(p, o, t, h, v) ==
    [pc |-> p, op |-> o, t |-> t, h |-> h, att |-> TRUE, own |-> <<>>,
     err |-> "none", ovl |-> v]

\* caller c's call returns, or raises e
Return(e) == [IdleCaller EXCEPT !.err = e]

\* another thread is inside an unregister call of handler h of list l
UnregisterInFlight(c, l, h) ==
    \E d \in Callers \ {c} :
        /\ callers[d].pc # "idle"
        /\ callers[d].op = "unregister"
        /\ callers[d].t = l
        /\ callers[d].h = h

\* the register calls completed and not followed or overlapped by an
\* unregister call of the same handler, after c's register call of handler h
\* of list l returns
Completed(c, l, h) ==
    IF callers[c].ovl \/ UnregisterInFlight(c, l, h)
    THEN completed ELSE completed \cup {<<l, h>>}

\* the frames after caller c has entered an unregister call of handler h of
\* list l at position p: the register calls of h in flight are overlapped
Entered(c, p, l, h) ==
    [d \in Callers |->
        IF d = c THEN Frame(p, "unregister", l, h, FALSE)
        ELSE IF callers[d].pc # "idle" /\ callers[d].t = l /\ callers[d].h = h
        THEN [callers[d] EXCEPT !.ovl = TRUE]
        ELSE callers[d]]

\* register, line 161: handler_list = self._handlers[type]
RegisterGet(c, t, h) ==
    /\ callers[c].pc = "idle"
    /\ nops < MaxOps
    /\ nops' = nops + 1
    /\ handlers' = Subscript(handlers, t)
    /\ callers' = [callers EXCEPT ![c] = Frame("r_test", "register", t, h,
                                            UnregisterInFlight(c, t, h))]
    /\ UNCHANGED <<raceFrame, general, completed>>

\* register, line 162: if handler not in handler_list
RegisterTest(c) ==
    /\ callers[c].pc = "r_test"
    /\ IF callers[c].h \notin Range(HandlerList(c))
       THEN /\ callers' = [callers EXCEPT ![c].pc = "r_append"]
            /\ completed' = completed
       ELSE /\ callers' = [callers EXCEPT ![c] = Return("none")]
            /\ completed' = Completed(c, callers[c].t, callers[c].h)
    /\ UNCHANGED <<raceFrame, tableVars, nops>>

\* register, line 163: handler_list.append(handler)
RegisterAppend(c) ==
    /\ callers[c].pc = "r_append"
    /\ IF callers[c].att
       THEN handlers' = [handlers EXCEPT
                            ![callers[c].t] = ListAppend(@, callers[c].h)]
       ELSE handlers' = handlers
    /\ callers' = [callers EXCEPT ![c] = Return("none")]
    /\ completed' = Completed(c, callers[c].t, callers[c].h)
    /\ UNCHANGED <<raceFrame, general, nops>>

\* unregister, line 172: handler_list = self._handlers[type]
UnregisterGet(c, t, h) ==
    /\ callers[c].pc = "idle"
    /\ nops < MaxOps
    /\ nops' = nops + 1
    /\ handlers' = Subscript(handlers, t)
    /\ callers' = Entered(c, "u_test", t, h)
    /\ completed' = completed \ {<<t, h>>}
    /\ UNCHANGED <<raceFrame, general>>

\* unregister, line 174: if handler in handler_list
UnregisterTest(c) ==
    /\ callers[c].pc = "u_test"
    /\ callers' = [callers EXCEPT ![c].pc =
                      IF callers[c].h \in Range(HandlerList(c))
                      THEN "u_remove" ELSE "u_empty"]
    /\ UNCHANGED <<raceFrame, tableVars, nops, completed>>

\* unregister, line 175: handler_list.remove(handler); list.remove raises
\* ValueError when the handler is not in the list
UnregisterRemove(c) ==
    /\ callers[c].pc = "u_remove"
    /\ IF callers[c].h \notin Range(HandlerList(c))
       THEN /\ callers' = [callers EXCEPT ![c] = Return("ValueError")]
            /\ handlers' = handlers
       ELSE IF callers[c].att
       THEN /\ handlers' = [handlers EXCEPT
                               ![callers[c].t] = ListRemove(@, callers[c].h)]
            /\ callers' = [callers EXCEPT ![c].pc = "u_empty"]
       ELSE /\ handlers' = handlers
            /\ callers' = [callers EXCEPT
                              ![c].own = ListRemove(@, callers[c].h),
                              ![c].pc = "u_empty"]
    /\ UNCHANGED <<raceFrame, general, nops, completed>>

\* unregister, line 177: if not handler_list
UnregisterEmpty(c) ==
    /\ callers[c].pc = "u_empty"
    /\ callers' = [callers EXCEPT ![c] =
                      IF HandlerList(c) = <<>>
                      THEN [@ EXCEPT !.pc = "u_pop"] ELSE Return("none")]
    /\ UNCHANGED <<raceFrame, tableVars, nops, completed>>

\* the frames after dict.pop(t) by caller c: the list that was the mapping's
\* list of t is still the handler_list of the other callers that hold it
Detach(c, t) ==
    [d \in Callers |->
        IF d = c THEN Return("none")
        ELSE IF callers[d].pc # "idle" /\ callers[d].op \in {"register", "unregister"}
                /\ callers[d].t = t /\ callers[d].att
        THEN [callers[d] EXCEPT !.att = FALSE, !.own = handlers[t]]
        ELSE callers[d]]

\* unregister, line 178: self._handlers.pop(type); dict.pop raises KeyError
\* when the key is not in the mapping
UnregisterPop(c) ==
    /\ callers[c].pc = "u_pop"
    /\ IF callers[c].t \in DOMAIN handlers
       THEN /\ handlers' = Pop(handlers, callers[c].t)
            /\ callers' = Detach(c, callers[c].t)
       ELSE /\ handlers' = handlers
            /\ callers' = [callers EXCEPT ![c] = Return("KeyError")]
    /\ UNCHANGED <<raceFrame, general, nops, completed>>

\* register_general, line 186: if handler not in self._general_handlers
RegisterGeneralTest(c, h) ==
    /\ callers[c].pc = "idle"
    /\ nops < MaxOps
    /\ nops' = nops + 1
    /\ IF h \notin Range(general)
       THEN /\ callers' = [callers EXCEPT
                              ![c] = Frame("g_append", "register_general",
                                           General, h,
                                           UnregisterInFlight(c, General, h))]
            /\ completed' = completed
       ELSE /\ callers' = [callers EXCEPT ![c] = Return("none")]
            /\ completed' = Completed(c, General, h)
    /\ UNCHANGED <<raceFrame, tableVars>>

\* register_general, line 187: self._general_handlers.append(handler)
RegisterGeneralAppend(c) ==
    /\ callers[c].pc = "g_append"
    /\ general' = ListAppend(general, callers[c].h)
    /\ callers' = [callers EXCEPT ![c] = Return("none")]
    /\ completed' = Completed(c, General, callers[c].h)
    /\ UNCHANGED <<raceFrame, handlers, nops>>

\* unregister_general, line 196: if handler in self._general_handlers
UnregisterGeneralTest(c, h) ==
    /\ callers[c].pc = "idle"
    /\ nops < MaxOps
    /\ nops' = nops + 1
    /\ callers' = IF h \in Range(general)
                  THEN Entered(c, "g_remove", General, h)
                  ELSE [Entered(c, "g_remove", General, h) EXCEPT
                           ![c] = Return("none")]
    /\ completed' = completed \ {<<General, h>>}
    /\ UNCHANGED <<raceFrame, tableVars>>

\* unregister_general, line 198: self._general_handlers.remove(handler)
UnregisterGeneralRemove(c) ==
    /\ callers[c].pc = "g_remove"
    /\ IF callers[c].h \in Range(general)
       THEN /\ general' = ListRemove(general, callers[c].h)
            /\ callers' = [callers EXCEPT ![c] = Return("none")]
       ELSE /\ general' = general
            /\ callers' = [callers EXCEPT ![c] = Return("ValueError")]
    /\ UNCHANGED <<raceFrame, handlers, nops, completed>>

RaceNext ==
    \/ \E c \in Callers, t \in UserTypes, h \in Handlers : RegisterGet(c, t, h)
    \/ \E c \in Callers : RegisterTest(c)
    \/ \E c \in Callers : RegisterAppend(c)
    \/ \E c \in Callers, t \in UserTypes, h \in Handlers : UnregisterGet(c, t, h)
    \/ \E c \in Callers : UnregisterTest(c)
    \/ \E c \in Callers : UnregisterRemove(c)
    \/ \E c \in Callers : UnregisterEmpty(c)
    \/ \E c \in Callers : UnregisterPop(c)
    \/ \E c \in Callers, h \in Handlers : RegisterGeneralTest(c, h)
    \/ \E c \in Callers : RegisterGeneralAppend(c)
    \/ \E c \in Callers, h \in Handlers : UnregisterGeneralTest(c, h)
    \/ \E c \in Callers : UnregisterGeneralRemove(c)

RaceSpec == RaceInit /\ [][RaceNext]_vars

\* ------------------------------------------------------------------- Next
Next ==
    \/ StartCall
    \/ StartThread
    \/ StartTimer
    \/ StopCall
    \/ JoinTimer
    \/ JoinThread
    \/ \E t \in UserTypes, d \in Payloads : Put(t, d)
    \/ TimerWhile
    \/ TimerFire
    \/ RunWhile
    \/ RunGet
    \/ RunTimeout
    \/ ProcessCheck
    \/ ProcessLookup
    \/ ProcessNext
    \/ HandlerReturn
    \/ GeneralCheck
    \/ GeneralNext
    \/ GeneralReturn
    \/ ProcessReturn
    \/ \E t \in UserTypes, h \in Handlers : Register(t, h)
    \/ \E t \in UserTypes, h \in Handlers : Unregister(t, h)
    \/ \E h \in Handlers : RegisterGeneral(h)
    \/ \E h \in Handlers : UnregisterGeneral(h)

Spec == Init /\ [][Next]_vars

\* The steps of the three threads that the scheduler must eventually run: the
\* dispatch thread (a handler that was called returns), the timer thread (its
\* sleep ends) and the caller blocked in stop()'s joins.
DispatchStep ==
    \/ RunWhile \/ RunGet \/ RunTimeout \/ ProcessCheck \/ ProcessLookup
    \/ ProcessNext \/ HandlerReturn \/ GeneralCheck \/ GeneralNext
    \/ GeneralReturn \/ ProcessReturn
TimerStep == TimerWhile \/ TimerFire
StopStep == JoinTimer \/ JoinThread

\* Liveness is checked over the behaviours in which the callers and the timer
\* act at most MaxFairEnv times; after that the threads only finish what they
\* have begun.
FairNext ==
    \/ (nops + nuser + nticks + Len(calls) < MaxFairEnv /\ Next)
    \/ (nops + nuser + nticks + Len(calls) >= MaxFairEnv
          /\ (DispatchStep \/ TimerStep \/ StopStep \/ StartThread \/ StartTimer))

FairSpec ==
    /\ Init /\ [][FairNext]_vars
    /\ WF_vars(DispatchStep)
    /\ WF_vars(TimerStep)
    /\ WF_vars(StopStep)

\* The engine with the history of the stop window recorded, its callers and
\* the timer acting at most MaxFairEnv times
LateSpec == LateInit /\ [][FairNext]_vars

\* The engine with handlers that may raise, under the same scheduling
RaiseNext ==
    \/ FairNext
    \/ \E x \in Exceptions : HandlerRaise(x)

RaiseSpec ==
    /\ Init /\ [][RaiseNext]_vars
    /\ WF_vars(DispatchStep)
    /\ WF_vars(TimerStep)
    /\ WF_vars(StopStep)

\* ------------------------------------------------------ derived quantities
Count(s, x) == Cardinality({i \in 1..Len(s) : s[i] = x})
NoDupSeq(s) == \A i, j \in 1..Len(s) : s[i] = s[j] => i = j
Pos(s, x) == CHOOSE i \in 1..Len(s) : s[i] = x

\* the handlers invoked in the type pass / the general pass of cur, in order
PassCalls(p) ==
    LET sel == SelectSeq(log, LAMBDA e : e.pass = p)
    IN  [i \in 1..Len(sel) |-> sel[i].h]
CallsT == PassCalls("T")
CallsG == PassCalls("G")

\* the type pass of cur is over / the whole dispatch of cur is over
TypePassDone == Dispatching /\ pc \in {"gcheck", "giter", "gcall", "done"}
DispatchDone == Dispatching /\ pc = "done"

\* handlers registered for cur.type (as general) ever since cur was dequeued
KeptT == Listed(handlers, cur.type) \ touchedT
KeptG == Range(general) \ touchedG
\* handlers not registered for cur.type (as general) ever since cur was dequeued
AbsentT == (Handlers \ Listed(handlers, cur.type)) \ touchedT
AbsentG == (Handlers \ Range(general)) \ touchedG
\* a handler was unregistered from the list while cur was being dispatched
UnregisteredT == \E u \in touchedT : u \notin Listed(handlers, cur.type)
UnregisteredG == \E u \in touchedG : u \notin Range(general)

\* events leave the queue in the order they were put: the k-th event dequeued
\* is the k-th event put
InPutOrder == Dispatching => cur.id = ngot

\* ------------------------------------------------------------------ claims

\* C1: a handler registered for type T and kept registered is invoked exactly
\* once with each dispatched event of type T, the events being dispatched in
\* the order they were put, and a handler not registered for an event's type is
\* not invoked in that event's type pass.
C1_TypeHandlerGetsExactlyItsEvents ==
    /\ InPutOrder
    /\ TypePassDone => \A h \in KeptT : Count(CallsT, h) = 1
    /\ Dispatching => \A h \in AbsentT : Count(CallsT, h) = 0

\* C2: a general handler kept registered is invoked exactly once with every
\* dispatched event, whatever its type and whether or not the type has
\* handlers of its own, the events being dispatched in the order they were put.
C2_GeneralHandlerGetsEveryEvent ==
    /\ InPutOrder
    /\ DispatchDone => \A h \in KeptG : Count(CallsG, h) = 1

\* C3: within the dispatch of one event no handler of the event's type is
\* invoked after a general handler, and in each pass the handlers that stay
\* registered are invoked in the order in which they were registered.
C3_TypeBeforeGeneralInRegistrationOrder ==
    /\ \A i, j \in 1..Len(log) :
          i < j => ~(log[i].pass = "G" /\ log[j].pass = "T")
    /\ \A i, j \in 1..Len(CallsT) :
          (i < j /\ CallsT[i] \in KeptT /\ CallsT[j] \in KeptT)
             => Pos(regOrder[cur.type], CallsT[i])
                  < Pos(regOrder[cur.type], CallsT[j])
    /\ \A i, j \in 1..Len(CallsG) :
          (i < j /\ CallsG[i] \in KeptG /\ CallsG[j] \in KeptG)
             => Pos(regOrder[General], CallsG[i])
                  < Pos(regOrder[General], CallsG[j])

\* C3's case: two handlers of the event's type and a general handler were all
\* invoked for a user event
C3_Witness ==
    /\ DispatchDone
    /\ Len(CallsT) = 2 /\ CallsT[1] # CallsT[2]
    /\ Range(CallsT) \subseteq KeptT
    /\ Len(CallsG) = 1

C5_UnregisterLeavesOthersDelivered ==
    /\ Dispatching => \A h \in AbsentT : Count(CallsT, h) = 0
    /\ Dispatching => \A h \in AbsentG : Count(CallsG, h) = 0
    /\ (TypePassDone /\ UnregisteredT) => \A h \in KeptT : Count(CallsT, h) = 1
    /\ (DispatchDone /\ UnregisteredG) => \A h \in KeptG : Count(CallsG, h) = 1

\* a stop() call has returned normally (it joined both threads)
StopReturned == \E i \in 1..Len(calls) : calls[i] = [op |-> "stop", res |-> "ok"]

\* C6: once a stop() call has returned, both loops have terminated, and from
\* then on no handler is invoked, no event is dequeued and no timer event is
\* enqueued.
C6_NothingRunsAfterStop ==
    /\ [](StopReturned => (thread = "dead" /\ timer = "dead"))
    /\ [][StopReturned => (log' = log /\ ngot' = ngot /\ nticks' = nticks)]_vars

\* C6's case: stop() has returned while an event with a registered handler is
\* still in the queue
C6_Witness ==
    /\ StopReturned
    /\ queue # <<>>
    /\ Listed(handlers, queue[1].type) # {}

\* C7: under fair scheduling a stop() call that has set the flag on a started
\* engine returns.
C7_StopReturns ==
    (ctl = "join_timer" /\ timer # "new")
        ~> (ctl = "idle" /\ LastCall = [op |-> "stop", res |-> "ok"])

\* C7's case: stop() has returned on an engine with no handler registered and
\* no event ever put
C7_Witness ==
    /\ StopReturned
    /\ ctl = "idle"
    /\ nops = 0
    /\ nput = 0

\* C8: a start() call made after a stop() call has returned succeeds and leaves
\* the flag true.
C8_Restartable ==
    (/\ ctl = "idle"
     /\ Len(calls) >= 2
     /\ LastCall.op = "start"
     /\ calls[Len(calls) - 1] = [op |-> "stop", res |-> "ok"])
        => (LastCall.res = "ok" /\ active)

\* the queue holds exactly the events put and not yet dequeued, in put order
QueueInPutOrder ==
    /\ nput = ngot + Len(queue)
    /\ \A i \in 1..Len(queue) : queue[i].id = ngot + i

\* put is possible whatever the lifecycle state
PutAlwaysPossible ==
    (nuser < MaxPut /\ Budget)
        => \A t \in UserTypes, d \in Payloads : ENABLED Put(t, d)

\* C9: put is possible in every lifecycle state; while no dispatch loop runs
\* (before start, after stop has returned) no event is dequeued; the queue
\* keeps every event put in put order, and events are dispatched in put order.
C9_PutAccumulatesInOrder ==
    /\ [](PutAlwaysPossible /\ QueueInPutOrder /\ InPutOrder)
    /\ [](thread # "alive" => ~Dispatching)
    /\ [][thread # "alive" => (ngot' = ngot /\ Len(queue') >= Len(queue))]_vars

\* C9's case: two events were put before start() and the second of them is
\* being dispatched after the first
C9_Witness ==
    /\ npre >= 2
    /\ Dispatching
    /\ cur.id = 2

\* C10: every key of the per-type mapping has at least one handler.
C10_NoEmptyHandlerList == \A t \in DOMAIN handlers : handlers[t] # <<>>

\* what C11 says a call without effect leaves alone
TableQueueFlagUnchanged ==
    /\ handlers' = handlers
    /\ general' = general
    /\ queue' = queue
    /\ active' = active

\* C11: unregister(T, h) called when T has no entry or when h is not in T's
\* list, and unregister_general(h) called when h is not in the general list,
\* leave the mapping (keys and lists), the general list, the queue and the
\* flag as they were.
C11_UnregisterAbsentIsNoOp ==
    [][/\ \A t \in UserTypes, h \in Handlers :
             (Unregister(t, h) /\ h \notin Listed(handlers, t))
                => TableQueueFlagUnchanged
       /\ \A h \in Handlers :
             (UnregisterGeneral(h) /\ h \notin Range(general))
                => TableQueueFlagUnchanged]_vars

\* the timer loop is running on an engine whose flag is true
TimerRunning == timer = "alive" /\ active

\* the events of the reserved type carry no payload
TimerEventsEmpty ==
    /\ \A i \in 1..Len(queue) :
          queue[i].type = EVENT_TIMER => queue[i].data = None
    /\ cur.type = EVENT_TIMER => cur.data = None

\* the timer loop leaves its sleep exactly by putting one timer event at the
\* tail of the queue, and timer events are put in no other way
OneEventPerSleep ==
    /\ (tpc = "sleep" /\ tpc' # "sleep")
          => /\ nticks' = nticks + 1
             /\ queue' = Append(queue, Event(EVENT_TIMER, None, nput + 1))
    /\ nticks' # nticks => (tpc = "sleep" /\ tpc' = "while")

\* C12: every event the timer loop enqueues has type EVENT_TIMER and payload
\* None, each completed sleep enqueues exactly one, and while the engine keeps
\* running (flag true, timer loop alive) the next timer event is eventually
\* enqueued: after n events an (n+1)-th follows, as far as the bounds of the
\* model let the timer act.
C12_TimerKeepsEnqueuing ==
    /\ []TimerEventsEmpty
    /\ [][OneEventPerSleep]_vars
    /\ \A n \in 0..(MaxTicks - 1) :
          (TimerRunning /\ nticks = n) ~> (nticks > n \/ ~active \/ ~Budget)

\* C12's case: the engine has stayed running for two intervals and the second
\* timer event is at the tail of the queue
C12_Witness ==
    /\ TimerRunning
    /\ LastCall = [op |-> "start", res |-> "ok"]
    /\ nticks = 2
    /\ queue # <<>>
    /\ queue[Len(queue)] = Event(EVENT_TIMER, None, nput)

\* a dequeue takes the head of the queue, which is the oldest event not yet
\* dequeued, and removes exactly that event
DequeueInOrder ==
    ngot' # ngot
       => /\ ngot' = ngot + 1
          /\ cur' = Head(queue)
          /\ cur'.id = ngot'
          /\ queue' = Tail(queue)

\* every event put so far has been dequeued and its dispatch is over
Drained == queue = <<>> /\ ~Dispatching

\* C13: the queue holds exactly the events put and not yet dequeued, in put
\* order; each dequeue removes the oldest of them, so every event is dequeued
\* at most once and in put order; and under fair scheduling, with handlers
\* that return, an engine whose dispatch loop keeps running again and again
\* reaches a point where every event put so far has been dequeued and
\* dispatched.
C13_QueueIsFifoAndDrained ==
    /\ [](QueueInPutOrder /\ InPutOrder)
    /\ [][DequeueInOrder]_vars
    /\ []<>(thread # "alive" \/ Drained)

\* C13's case: two events were put on a running engine and the second has
\* been dispatched to a handler after the first
C13_Witness ==
    /\ active /\ thread = "alive"
    /\ npre = 0
    /\ nuser = 2
    /\ cur.id = 2 /\ pc = "done"
    /\ log # <<>>

\* a caller thread is between two statements of a table call
InCall(c) == callers[c].pc # "idle"

\* the calls of different threads do not overlap
CallsExclusive == \A c, d \in Callers : (InCall(c) /\ InCall(d)) => c = d

\* no call has raised
NoCallRaised == \A c \in Callers : callers[c].err = "none"

\* every handler whose register call completed, with no unregister call of it
\* begun before or after the completion still to take effect, is in its list
CompletedPresent ==
    \A p \in completed :
        p[2] \in (IF p[1] = General THEN Range(general)
                  ELSE Listed(handlers, p[1]))

\* C14: register, unregister, register_general and unregister_general calls of
\* different threads do not interleave their statements, so that no call
\* raises, no list holds a handler twice and a handler whose register call
\* completed and that was not unregistered afterwards is in the table.
C14_TableCallsExclusive ==
    /\ CallsExclusive
    /\ NoCallRaised
    /\ \A t \in DOMAIN handlers : NoDupSeq(handlers[t])
    /\ NoDupSeq(general)
    /\ CompletedPresent

\* the timer loop starts a sleep only on reading the flag true, and a timer
\* thread that has ended stays ended and enqueues nothing
SleepsOnlyWhenActive ==
    /\ (tpc # "sleep" /\ tpc' = "sleep") => active
    /\ timer = "dead" => (timer' = "dead" /\ nticks' = nticks)

\* C15: while the flag is false after stop() has cleared it, the timer loop
\* has enqueued at most one timer event; after that event it is at the test of
\* the flag or has exited, and it never starts a sleep with the flag false.
C15_AtMostOneLateTimerEvent ==
    /\ [](~active => late.ticks <= 1)
    /\ []((~active /\ late.ticks = 1) => (timer = "dead" \/ tpc = "while"))
    /\ [][SleepsOnlyWhenActive]_vars

\* C15's case: stop() cleared the flag during a sleep, the timer loop enqueued
\* the event of that sleep and then exited
C15_Witness ==
    /\ ~active
    /\ LastCall.op = "stop"
    /\ late.ticks = 1
    /\ timer = "dead"

\* the dispatch loop starts a dequeue attempt only on reading the flag true;
\* a dispatch thread that has ended stays ended, dequeues nothing and invokes
\* nothing, and the queue keeps what it holds (events are only added at the
\* tail)
GetsOnlyWhenActive ==
    /\ (pc = "while" /\ pc' = "get") => active
    /\ thread = "dead"
          => /\ thread' = "dead"
             /\ ngot' = ngot
             /\ log' = log
             /\ Len(queue') >= Len(queue)
             /\ SubSeq(queue', 1, Len(queue)) = queue

\* C16: while the flag is false after stop() has cleared it, the dispatch loop
\* has dequeued at most one event (that of the attempt under way); it starts
\* no dequeue attempt with the flag false, and once it has exited the events
\* it has not dequeued stay in the queue in put order.
C16_AtMostOneLateDispatch ==
    /\ [](~active => late.gets <= 1)
    /\ []QueueInPutOrder
    /\ [][GetsOnlyWhenActive]_vars

\* C16's case: stop() cleared the flag during a dequeue attempt, the loop
\* dequeued and dispatched one more event and exited, and a later event is
\* still in the queue
C16_Witness ==
    /\ ~active
    /\ LastCall.op = "stop"
    /\ late.gets = 1
    /\ thread = "dead"
    /\ queue # <<>>
    /\ queue[1].id = ngot + 1

\* the dispatch thread has ended inside a handler invocation
Failed == thread = "dead" /\ pc \in {"call", "gcall"}

\* a step in which a handler raises ends the dispatch loop, invokes no
\* further handler and leaves the flag as it is
RaiseEndsLoop ==
    (\E x \in Exceptions : HandlerRaise(x))
       => /\ thread' = "dead"
          /\ Len(log') <= Len(log)
          /\ active' = active

\* C17: when a handler raises, the remaining handlers of the event are not
\* invoked and the dispatch loop ends; from then on no event is dequeued and
\* no handler invoked; the flag is not changed by the failure, the timer loop
\* goes on enqueuing timer events while the flag is true, and a stop() called
\* afterwards returns.
C17_HandlerFailureEndsDispatch ==
    /\ [][RaiseEndsLoop]_vars
    /\ [][Failed => (Failed' /\ ngot' = ngot /\ log' = log)]_vars
    /\ \A n \in 0..(MaxTicks - 1) :
          (Failed /\ TimerRunning /\ nticks = n)
              ~> (nticks > n \/ ~active \/ ~Budget)
    /\ (Failed /\ ctl = "join_timer" /\ timer # "new")
          ~> (ctl = "idle" /\ LastCall = [op |-> "stop", res |-> "ok"])

\* a handler invocation is in progress
Invoking == curH # NoHandler

\* an invocation is in progress only while the dispatch thread is inside the
\* call of a handler of the current event, and it is the invocation the
\* thread made last
OneInvocationAtATime ==
    /\ Invoking <=> pc \in {"call", "gcall"}
    /\ Invoking => (Dispatching /\ log # <<>> /\ log[Len(log)].h = curH)

\* the next event is dequeued only when no event is being dispatched: every
\* handler invoked for the previous event has returned and both passes are
\* over; a new invocation starts only when none is in progress; what
\* producers and the timer loop do (events put) does not move the dispatch
\* loop; and the dispatch thread is started at most once
OneEventAtATime ==
    /\ ngot' # ngot => (~Dispatching /\ ~Invoking /\ log = <<>>)
    /\ Len(log') > Len(log) => (~Invoking /\ Len(log') = Len(log) + 1)
    /\ nput' # nput => UNCHANGED dispVars
    /\ thread # "new" => thread' # "new"
    /\ (thread # "alive" /\ thread' = "alive") => thread = "new"

\* C18: at most one handler invocation is in progress at any moment, and the
\* dispatch loop dequeues the next event only after every handler of the
\* current event has returned, whatever producers and the timer loop do.
C18_OneEventAtATime ==
    /\ []OneInvocationAtATime
    /\ [][OneEventAtATime]_vars

\* C18's case: a handler is being invoked while an event put by a producer
\* and a timer event wait in the queue
C18_Witness ==
    /\ Invoking
    /\ Len(queue) >= 2
    /\ \E i \in 1..Len(queue) : queue[i].type = EVENT_TIMER
    /\ \E i \in 1..Len(queue) : queue[i].type # EVENT_TIMER

\* a step of the dispatch loop leaves the mapping and the general list alone
DispatchKeepsTable == DispatchStep => UNCHANGED tableVars

\* a put appends exactly one event at the tail of the queue and changes
\* nothing else of the engine
PutOnlyAppends ==
    \A t \in UserTypes, d \in Payloads :
        Put(t, d)
           => /\ queue' = Append(queue, Event(t, d, nput + 1))
              /\ UNCHANGED <<tableVars, lifeVars, tpc, dispVars>>

\* C19: the steps of the dispatch loop itself do not change the subscription
\* table (only register/unregister calls do, those made by handlers
\* included), so dispatching an event whose type has no subscribers creates no
\* entry for the type; and put changes the queue only, appending one event at
\* the tail.
C19_DispatchAndPutKeepTable ==
    [][DispatchKeepsTable /\ PutOnlyAppends]_vars

\* a start() call is between its first and its last statement
Starting == ctl \in {"start_thread", "start_timer"}

\* with the flag true and no start() call in progress the timer loop is alive
FlagMeansTimerAlive == (active /\ ~Starting) => timer = "alive"

\* a start() call made when the dispatch thread has been started before
\* raises (line 131), and a stop() call made when the timer thread was never
\* started raises (line 142): such a call leaves the flag as it finds it
FailingCallKeepsFlag ==
    /\ (StartCall /\ thread # "new") => active' = active
    /\ (StopCall /\ timer = "new") => active' = active

\* C20: whenever the flag is true and no start() call is in progress the timer
\* loop is alive, and a start() or stop() call that raises leaves the flag as
\* it was before the call.
C20_FlagAgreesWithLoops ==
    /\ []FlagMeansTimerAlive
    /\ [][FailingCallKeepsFlag]_vars

=============================================================================
